---- MODULE Spec2Model ----
(***************************************************************************)
(* A model of the POST /analyze handler of the MedPanel Flask API          *)
(* (src/app.py).  One request is handled at a time, step by step: parse    *)
(* the body, extract the notes, decode the image, determine the mode, call *)
(* the panel engine, repair the report, assemble the response; any Python  *)
(* exception raised inside the handler's try block is caught by its        *)
(* `except Exception` clause and answered with status 500.                 *)
(*                                                                         *)
(* Text is a sequence of characters.  A run of letters that holds no       *)
(* structural character (a word such as primary_diagnosis) is kept as one  *)
(* element of the sequence; quotes, braces, commas, colons, digits and     *)
(* whitespace are single elements, so strip, rfind, slicing and JSON       *)
(* parsing work on them as they do on Python strings.                      *)
(***************************************************************************)
EXTENDS Integers, Sequences, FiniteSets, TLC

(***************************************************************************)
(* Bounds of the model.                                                    *)
(***************************************************************************)
\* longest clinical-notes text enumerated exhaustively
MaxNotesLen == 1
\* longest raw report text enumerated exhaustively over RawChars
MaxRawLen == 1
\* longest panel trace the engine returns
MaxTraceLen == 2

(***************************************************************************)
(* Python / JSON values, tagged by type.                                   *)
(***************************************************************************)
Str(s) == [t |-> "str", s |-> s]
Num(d) == [t |-> "int", d |-> d]
Bool(b) == [t |-> "bool", b |-> b]
None == [t |-> "none"]
Dict(f) == [t |-> "dict", f |-> f]
\* a decoded PIL image (RGB raster)
Img(b) == [t |-> "image", bytes |-> b]

IsStr(v) == v.t = "str"
IsDict(v) == v.t = "dict"
\* type(v).__name__
TypeName(v) == IF v.t = "none" THEN "NoneType" ELSE v.t

\* the empty dict
EmptyMap == [k \in {} |-> None]
\* d[k] = v on a mapping (a later key replaces an earlier one)
Put(f, k, v) == [x \in (DOMAIN f) \cup {k} |-> IF x = k THEN v ELSE f[x]]
\* dict.get(key, default)
Get(d, key, default) == IF key \in DOMAIN d.f THEN d.f[key] ELSE default
\* Python truthiness of a value
Truthy(v) ==
  CASE v.t = "none" -> FALSE
    [] v.t = "bool" -> v.b
    [] v.t = "str" -> v.s # <<>>
    [] v.t = "int" -> TRUE
    [] v.t = "dict" -> DOMAIN v.f # {}
    [] OTHER -> TRUE

(***************************************************************************)
(* Python string operations.                                               *)
(***************************************************************************)
QUOTE == "\""
NL == "\n"
Whitespace == {" ", NL}

\* number of leading whitespace characters of s
RECURSIVE LeadWs(_)
LeadWs(s) ==
  IF s = <<>> \/ Head(s) \notin Whitespace THEN 0 ELSE 1 + LeadWs(Tail(s))

\* number of trailing whitespace characters of s
RECURSIVE TrailWs(_)
TrailWs(s) ==
  IF s = <<>> \/ s[Len(s)] \notin Whitespace
  THEN 0
  ELSE 1 + TrailWs(SubSeq(s, 1, Len(s) - 1))

\* str.strip()
Strip(s) ==
  IF LeadWs(s) = Len(s) THEN <<>> ELSE SubSeq(s, LeadWs(s) + 1, Len(s) - TrailWs(s))

\* str.endswith(c) for a one-character c
EndsWith(s, c) == s # <<>> /\ s[Len(s)] = c

\* str.rfind(a + b) for the two-character pattern a b: the 0-based index of the
\* last occurrence, -1 when there is none
RFind2(s, a, b) ==
  LET hits == {i \in 1..(Len(s) - 1) : s[i] = a /\ s[i + 1] = b}
  IN IF hits = {} THEN -1 ELSE (CHOOSE i \in hits : \A j \in hits : j <= i) - 1

(***************************************************************************)
(* json.loads, on the characters of the model's alphabet: objects, strings,*)
(* integers written with the digit 1, and the literals true, false, null.  *)
(* A parse gives [ok, val, pos]: pos is the index after the value.         *)
(***************************************************************************)
Digits == {"1"}
Literals == {"true", "false", "null"}
Fail == [ok |-> FALSE, val |-> None, pos |-> 0]
Ok(v, p) == [ok |-> TRUE, val |-> v, pos |-> p]

\* index of the first non-whitespace character of s at or after i (Len(s)+1 if none)
RECURSIVE SkipWs(_, _)
SkipWs(s, i) == IF i <= Len(s) /\ s[i] \in Whitespace THEN SkipWs(s, i + 1) ELSE i

\* s[i] is an opening quote: the string runs to the next quote and holds no
\* control character
ParseString(s, i) ==
  LET ends == {j \in (i + 1)..Len(s) : s[j] = QUOTE}
  IN IF ends = {}
     THEN Fail
     ELSE LET j == CHOOSE e \in ends : \A o \in ends : e <= o
              body == SubSeq(s, i + 1, j - 1)
          IN IF \E k \in 1..Len(body) : body[k] = NL
             THEN Fail
             ELSE Ok(body, j + 1)

\* index after the run of digits that starts at i
RECURSIVE DigitsEnd(_, _)
DigitsEnd(s, i) == IF i <= Len(s) /\ s[i] \in Digits THEN DigitsEnd(s, i + 1) ELSE i

LitValue(w) ==
  CASE w = "true" -> Bool(TRUE)
    [] w = "false" -> Bool(FALSE)
    [] OTHER -> None

RECURSIVE ParseValue(_, _)
RECURSIVE ParseMembers(_, _, _)
\* the members of an object; i is the first non-whitespace index after '{' or ','
ParseMembers(s, i, acc) ==
  IF i > Len(s) \/ s[i] # QUOTE
  THEN Fail
  ELSE LET k == ParseString(s, i)
       IN IF ~k.ok
          THEN Fail
          ELSE LET c == SkipWs(s, k.pos)
               IN IF c > Len(s) \/ s[c] # ":"
                  THEN Fail
                  ELSE LET v == ParseValue(s, SkipWs(s, c + 1))
                       IN IF ~v.ok
                          THEN Fail
                          ELSE LET e == SkipWs(s, v.pos)
                                   acc2 == Put(acc, k.val, v.val)
                               IN IF e > Len(s)
                                  THEN Fail
                                  ELSE IF s[e] = "}"
                                  THEN Ok(Dict(acc2), e + 1)
                                  ELSE IF s[e] = ","
                                  THEN ParseMembers(s, SkipWs(s, e + 1), acc2)
                                  ELSE Fail

\* one JSON value starting at i
ParseValue(s, i) ==
  IF i > Len(s)
  THEN Fail
  ELSE IF s[i] = "{"
  THEN LET j == SkipWs(s, i + 1)
       IN IF j <= Len(s) /\ s[j] = "}"
          THEN Ok(Dict(EmptyMap), j + 1)
          ELSE ParseMembers(s, j, EmptyMap)
  ELSE IF s[i] = QUOTE
  THEN LET r == ParseString(s, i) IN IF r.ok THEN Ok(Str(r.val), r.pos) ELSE Fail
  ELSE IF s[i] \in Digits
  THEN Ok(Num(SubSeq(s, i, DigitsEnd(s, i) - 1)), DigitsEnd(s, i))
  ELSE IF s[i] \in Literals
  THEN Ok(LitValue(s[i]), i + 1)
  ELSE Fail

\* json.loads(s): ok = FALSE stands for json.JSONDecodeError
JsonLoads(s) ==
  LET v == ParseValue(s, SkipWs(s, 1))
  IN IF v.ok /\ SkipWs(s, v.pos) = Len(s) + 1 THEN Ok(v.val, v.pos) ELSE Fail

(***************************************************************************)
(* Exceptions: type(e).__name__ and str(e).                                *)
(***************************************************************************)
Exc(type, msg) == [type |-> type, msg |-> msg]
\* "'NoneType' object has no attribute 'strip'"
AttributeError(v, attr) ==
  Exc("AttributeError", <<"'", TypeName(v), "' object has no attribute '", attr, "'">>)

\* a key of a JSON object / Python dict, and a one-word text
K(w) == <<w>>
RAW_RESPONSE == K("raw_response")
PRIMARY_DIAGNOSIS == K("primary_diagnosis")
PANEL_AGREEMENT_SCORE == K("panel_agreement_score")
ESCALATE_TO_HUMAN == K("escalate_to_human")
ESCALATION_REASON == K("escalation_reason")

(***************************************************************************)
(* Image decoding (app.py lines 116-126).  An image string is a sequence   *)
(* of chunks: an optional data-URL prefix, the marker "base64," and a      *)
(* payload.  base64.b64decode and PIL's Image.open are library code: they  *)
(* are given by their results on the payloads of the model.                *)
(***************************************************************************)
MARKER == "base64,"

\* image_data.split('base64,')[1]: the text between the first marker and the next
SplitAfterMarker(s) ==
  LET first == CHOOSE i \in 1..Len(s) : s[i] = MARKER /\ \A j \in 1..(i - 1) : s[j] # MARKER
      rest == SubSeq(s, first + 1, Len(s))
      more == {i \in 1..Len(rest) : rest[i] = MARKER}
  IN IF more = {}
     THEN rest
     ELSE SubSeq(rest, 1, (CHOOSE i \in more : \A j \in more : i <= j) - 1)

\* base64.b64decode(payload): ok = FALSE stands for binascii.Error
B64Decode(payload) ==
  CASE payload = <<>> -> [ok |-> TRUE, bytes |-> <<>>]
    [] payload = <<"iVBORw0KGgo=">> -> [ok |-> TRUE, bytes |-> <<"PNG-raster">>]
    [] payload = <<"aGVsbG8=">> -> [ok |-> TRUE, bytes |-> <<"hello">>]
    [] payload = <<"iVBORw0K">> -> [ok |-> TRUE, bytes |-> <<"PNG-cut-short">>]
    [] OTHER -> [ok |-> FALSE, bytes |-> <<>>]

\* Image.open(BytesIO(bytes)).convert('RGB'): ok = FALSE stands for
\* PIL.UnidentifiedImageError / OSError
ImageOpen(bytes) ==
  IF bytes = <<"PNG-raster">>
  THEN [ok |-> TRUE, image |-> Img(bytes)]
  ELSE [ok |-> FALSE, image |-> None]

\* the body of the try block at lines 117-127, on a truthy image value
DecodeImage(image_data) ==
  IF ~IsStr(image_data)
  THEN [ok |-> FALSE, image |-> None]
  ELSE LET payload == IF \E i \in 1..Len(image_data.s) : image_data.s[i] = MARKER
                      THEN SplitAfterMarker(image_data.s)
                      ELSE image_data.s
           image_bytes == B64Decode(payload)
       IN IF image_bytes.ok THEN ImageOpen(image_bytes.bytes) ELSE [ok |-> FALSE, image |-> None]

(***************************************************************************)
(* Report repair (app.py lines 154-172).                                   *)
(***************************************************************************)
\* a wrapper test that forgets the key: isinstance(report, dict)
IsRawWrapper_AnyDict(report) == IsDict(report)

\* isinstance(report, dict) and "raw_response" in report
IsRawWrapper(report) == IsDict(report) /\ RAW_RESPONSE \in DOMAIN report.f

\* lines 159-163: close a text that does not end with a brace after its last '",'
CleanTruncated(raw) ==
  IF ~EndsWith(Strip(raw), "}")
  THEN LET last_complete == RFind2(raw, QUOTE, ",")
       IN IF last_complete > 0
          THEN SubSeq(raw, 1, last_complete + 2) \o <<NL, "}">>
          ELSE raw
  ELSE raw

\* lines 154-172: [raised, exc, report]; a json.JSONDecodeError keeps the wrapper,
\* any other exception (a KeyError of report["raw_response"], an AttributeError
\* of raw.strip()) leaves the block
RepairReport(report) ==
  IF IsRawWrapper(report)
  THEN IF RAW_RESPONSE \notin DOMAIN report.f
       THEN [raised |-> TRUE, exc |-> Exc("KeyError", <<"'raw_response'">>), report |-> report]
       ELSE LET raw == report.f[RAW_RESPONSE]
            IN IF ~IsStr(raw)
               THEN [raised |-> TRUE, exc |-> AttributeError(raw, "strip"), report |-> report]
               ELSE LET parsed == JsonLoads(CleanTruncated(raw.s))
                    IN [raised |-> FALSE, exc |-> None,
                        report |-> IF parsed.ok THEN parsed.val ELSE report]
  ELSE [raised |-> FALSE, exc |-> None, report |-> report]

\* a summary that reads the fields without the defaults of lines 182-185
Summary_NoDefaults(report) ==
  [diagnosis |-> Get(report, PRIMARY_DIAGNOSIS, None),
   confidence |-> Get(report, PANEL_AGREEMENT_SCORE, None),
   escalate |-> Get(report, ESCALATE_TO_HUMAN, None),
   reason |-> Get(report, ESCALATION_REASON, None)]

\* lines 181-186
Summary(report) ==
  [diagnosis |-> Get(report, PRIMARY_DIAGNOSIS, Str(K("N/A"))),
   confidence |-> Get(report, PANEL_AGREEMENT_SCORE, Str(K("N/A"))),
   escalate |-> Get(report, ESCALATE_TO_HUMAN, Bool(FALSE)),
   reason |-> Get(report, ESCALATION_REASON, Str(<<>>))]

\* a default that looks at the image key of the body, not at image_provided
DetermineMode_ByImageKey(data, image_provided) ==
  Get(data, K("mode"), Str(K(IF K("image") \in DOMAIN data.f THEN "full" ELSE "text-only")))

\* line 140
DetermineMode(data, image_provided) ==
  Get(data, K("mode"), Str(K(IF image_provided THEN "full" ELSE "text-only")))

(***************************************************************************)
(* The inputs of the model: request bodies and engine outcomes.            *)
(***************************************************************************)
\* all texts over the characters cs of length at most n
Texts(cs, n) == UNION {[1..k -> cs] : k \in 0..n}
\* all prefixes of a text
Prefixes(s) == {SubSeq(s, 1, k) : k \in 0..Len(s)}
\* a quoted word
Q(w) == <<QUOTE, w, QUOTE>>

NoteChars == {" ", "c"}
NotesTexts == Texts(NoteChars, MaxNotesLen) \cup {<<NL>>, <<" ", "c", NL>>, <<"c", " ", "c">>}

ImageStrings ==
  { <<>>,
    <<"iVBORw0KGgo=">>,
    <<"data:image/png;", MARKER, "iVBORw0KGgo=">>,
    <<"not-base64!!">>,
    <<"aGVsbG8=">>,
    <<"data:image/png;", MARKER, "iVBORw0K">>,
    <<"data:image/png;", MARKER>> }

\* a key the body does not carry
Absent == [t |-> "absent"]
NotesValues == {Absent, None, Num(<<"1">>)} \cup {Str(s) : s \in NotesTexts}
ImageValues == {Absent, None, Num(<<"1">>)} \cup {Str(s) : s \in ImageStrings}
ModeValues == {Absent, Str(K("full")), Str(K("text-only"))}

\* the JSON object {"notes": n, "image": i, "mode": m} without its absent keys
Body(n, i, m) ==
  LET given == {kv \in {<<K("notes"), n>>, <<K("image"), i>>, <<K("mode"), m>>} :
                  kv[2] # Absent}
  IN Dict([k \in {kv[1] : kv \in given} |-> (CHOOSE kv \in given : kv[1] = k)[2]])

Requests ==
  {[method |-> "POST", is_json |-> TRUE, data |-> Body(n, i, m)] :
     n \in NotesValues, i \in ImageValues, m \in ModeValues}
  \cup {[method |-> "POST", is_json |-> FALSE, data |-> None],
        [method |-> "OPTIONS", is_json |-> FALSE, data |-> None]}

\* the raw texts the engine's model may emit: every text over RawChars up to
\* MaxRawLen, every truncation of three complete documents, and a few more
RawChars == {"{", "}", QUOTE, ",", "1", " "}
SpecExample ==
  <<"{">> \o Q("a") \o <<":">> \o Q("x") \o <<",">> \o Q("b") \o <<":">> \o Q("y") \o <<"}">>
FullReport ==
  <<"{">> \o Q("primary_diagnosis") \o <<":">> \o Q("flu") \o <<",">>
          \o Q("panel_agreement_score") \o <<":", "1", ",">>
          \o Q("escalate_to_human") \o <<":", "true", ",">>
          \o Q("escalation_reason") \o <<":">> \o Q("x") \o <<"}", NL>>
PrettyReport ==
  <<"{", NL>> \o Q("primary_diagnosis") \o <<":", " ">> \o Q("flu") \o <<",", NL>>
              \o Q("escalate_to_human") \o <<":", " ", "false", NL, "}">>
NestedWrapper == <<"{">> \o Q("raw_response") \o <<":", QUOTE, "{", "}", QUOTE, "}">>
NestedNumber == <<"{">> \o Q("raw_response") \o <<":", "1", "}">>
RawTexts ==
  Texts(RawChars, MaxRawLen)
  \cup Prefixes(SpecExample) \cup Prefixes(FullReport) \cup Prefixes(PrettyReport)
  \cup {NestedWrapper, NestedNumber, <<"null">>, <<"true">>, Q("x"),
        <<QUOTE, ",", "1">>, <<"{", "}">>, <<"{", "}", "}">>}

ReportFields ==
  {PRIMARY_DIAGNOSIS, PANEL_AGREEMENT_SCORE, ESCALATE_TO_HUMAN, ESCALATION_REASON}
FieldValue(k) ==
  CASE k = PRIMARY_DIAGNOSIS -> Str(K("flu"))
    [] k = PANEL_AGREEMENT_SCORE -> Num(<<"1", "1">>)
    [] k = ESCALATE_TO_HUMAN -> Bool(TRUE)
    [] OTHER -> Str(K("x"))
\* the engine's reports: structured with any of the fields, or a raw-text wrapper
StructuredReports == {Dict([k \in ks |-> FieldValue(k)]) : ks \in SUBSET ReportFields}
RawWrappers == {Dict([k \in {RAW_RESPONSE} |-> Str(raw)]) : raw \in RawTexts}
TraceEntries == {"radiologist", "internist"}
Traces == Texts(TraceEntries, MaxTraceLen)
EngineResults ==
  {[final_report |-> r, panel_trace |-> tr] :
     r \in StructuredReports \cup RawWrappers, tr \in Traces}
\* what run_medpanel may raise; a message may quote the notes it was given
EngineErrors(notes) ==
  {Exc("RuntimeError", <<"CUDA out of memory">>),
   Exc("RuntimeError", <<"models are not initialized">>),
   Exc("ValueError", <<"cannot analyse: ">> \o notes)}

(***************************************************************************)
(* The handler's state: the request being served, the locals of analyze(), *)
(* the calls made to run_medpanel in this request, and the response.       *)
(***************************************************************************)
VARIABLES pc, request, notes, image, image_provided, mode, calls, result, report,
          exc, response
vars == <<pc, request, notes, image, image_provided, mode, calls, result, report,
          exc, response>>

\* a local that is not bound yet
Unset == [t |-> "unset"]
NoResponse == [status |-> 0, body |-> EmptyMap]

Init ==
  /\ pc = "idle"
  /\ request = Unset
  /\ notes = Unset
  /\ image = Unset
  /\ image_provided = FALSE
  /\ mode = Unset
  /\ calls = <<>>
  /\ result = Unset
  /\ report = Unset
  /\ exc = Unset
  /\ response = NoResponse

\* return jsonify(body), status
Respond(status, body) ==
  /\ response' = [status |-> status, body |-> body]
  /\ pc' = "done"

\* a request reaches analyze()
Receive ==
  /\ pc = "idle"
  /\ \E req \in Requests : request' = req
  /\ pc' = "parse"
  /\ UNCHANGED <<notes, image, image_provided, mode, calls, result, report, exc, response>>

\* lines 90-91
Preflight ==
  /\ pc = "parse"
  /\ request.method = "OPTIONS"
  /\ Respond(204, EmptyMap)
  /\ UNCHANGED <<request, notes, image, image_provided, mode, calls, result, report, exc>>

\* lines 95-101
ParseRequest ==
  /\ pc = "parse"
  /\ request.method = "POST"
  /\ IF request.is_json
     THEN /\ pc' = "notes"
          /\ UNCHANGED response
     ELSE Respond(400, [success |-> FALSE,
                        error |-> <<"Content-Type must be application/json">>])
  /\ UNCHANGED <<request, notes, image, image_provided, mode, calls, result, report, exc>>

\* lines 104-110
ExtractNotes ==
  /\ pc = "notes"
  /\ LET v == Get(request.data, K("notes"), Str(<<>>))
     IN IF ~IsStr(v)
        THEN /\ exc' = AttributeError(v, "strip")
             /\ pc' = "except"
             /\ UNCHANGED <<notes, response>>
        ELSE /\ notes' = Strip(v.s)
             /\ IF Strip(v.s) = <<>>
                THEN Respond(400, [success |-> FALSE,
                                   error |-> <<"Clinical notes are required">>,
                                   message |-> <<"Please provide patient symptoms and clinical information">>])
                ELSE /\ pc' = "image"
                     /\ UNCHANGED response
             /\ UNCHANGED exc
  /\ UNCHANGED <<request, image, image_provided, mode, calls, result, report>>

\* lines 113-137
ExtractImage ==
  /\ pc = "image"
  /\ IF Truthy(Get(request.data, K("image"), None))
     THEN LET decoded == DecodeImage(request.data.f[K("image")])
          IN IF decoded.ok
             THEN /\ image' = decoded.image
                  /\ image_provided' = TRUE
                  /\ pc' = "mode"
                  /\ UNCHANGED response
             ELSE /\ image' = None
                  /\ image_provided' = FALSE
                  /\ Respond(400, [success |-> FALSE,
                                   error |-> <<"Invalid image format">>,
                                   message |-> <<"Please provide a valid base64-encoded image">>])
     ELSE /\ image' = None
          /\ image_provided' = FALSE
          /\ pc' = "mode"
          /\ UNCHANGED response
  /\ UNCHANGED <<request, notes, mode, calls, result, report, exc>>

\* line 140
SetMode ==
  /\ pc = "mode"
  /\ mode' = DetermineMode(request.data, image_provided)
  /\ pc' = "engine"
  /\ UNCHANGED <<request, notes, image, image_provided, calls, result, report, exc, response>>

\* line 148: the call returns a result or raises
RunMedpanel ==
  /\ pc = "engine"
  /\ calls' = Append(calls, [image |-> image, notes |-> notes])
  /\ \/ \E r \in EngineResults :
          /\ result' = r
          /\ pc' = "repair"
          /\ UNCHANGED exc
     \/ \E e \in EngineErrors(notes) :
          /\ exc' = e
          /\ pc' = "except"
          /\ UNCHANGED result
  /\ UNCHANGED <<request, notes, image, image_provided, mode, report, response>>

\* lines 151-172
Repair ==
  /\ pc = "repair"
  /\ LET r == RepairReport(result.final_report)
     IN IF r.raised
        THEN /\ exc' = r.exc
             /\ pc' = "except"
             /\ UNCHANGED report
        ELSE /\ report' = r.report
             /\ pc' = "assemble"
             /\ UNCHANGED exc
  /\ UNCHANGED <<request, notes, image, image_provided, mode, calls, result, response>>

\* lines 175-190: report.get raises AttributeError on a report that is no dict
Assemble ==
  /\ pc = "assemble"
  /\ IF IsDict(report)
     THEN /\ Respond(200, [success |-> TRUE,
                           mode |-> mode,
                           image_analyzed |-> image_provided,
                           report |-> report,
                           trace |-> result.panel_trace,
                           summary |-> Summary(report)])
          /\ UNCHANGED exc
     ELSE /\ exc' = AttributeError(report, "get")
          /\ pc' = "except"
          /\ UNCHANGED response
  /\ UNCHANGED <<request, notes, image, image_provided, mode, calls, result, report>>

\* lines 192-203
HandleException ==
  /\ pc = "except"
  /\ Respond(500, [success |-> FALSE,
                   error |-> exc.msg,
                   error_type |-> exc.type,
                   message |-> <<"An error occurred during analysis. Please try again.">>])
  /\ UNCHANGED <<request, notes, image, image_provided, mode, calls, result, report, exc>>

\* the response is sent and the request's state is discarded
Finish ==
  /\ pc = "done"
  /\ pc' = "idle"
  /\ request' = Unset
  /\ notes' = Unset
  /\ image' = Unset
  /\ image_provided' = FALSE
  /\ mode' = Unset
  /\ calls' = <<>>
  /\ result' = Unset
  /\ report' = Unset
  /\ exc' = Unset
  /\ response' = NoResponse

Next ==
  \/ Receive
  \/ Preflight
  \/ ParseRequest
  \/ ExtractNotes
  \/ ExtractImage
  \/ SetMode
  \/ RunMedpanel
  \/ Repair
  \/ Assemble
  \/ HandleException
  \/ Finish

Spec == Init /\ [][Next]_vars

(***************************************************************************)
(* Predicates on the request and on the engine's answer, used to state the *)
(* properties below.                                                       *)
(***************************************************************************)
Done == pc = "done"
JsonPost == request # Unset /\ request.method = "POST" /\ request.is_json
HasKey(w) == K(w) \in DOMAIN request.data.f
\* the body's notes are text that is not empty after trimming
NotesUsable ==
  /\ HasKey("notes")
  /\ request.data.f[K("notes")].t = "str"
  /\ Strip(request.data.f[K("notes")].s) # <<>>
\* the body's notes are the empty string or whitespace-only text
NotesBlank ==
  /\ HasKey("notes")
  /\ request.data.f[K("notes")].t = "str"
  /\ \A i \in 1..Len(request.data.f[K("notes")].s) :
       request.data.f[K("notes")].s[i] \in Whitespace
\* the body carries an image value (line 116 takes null and "" for no image)
ImageSupplied ==
  /\ HasKey("image")
  /\ request.data.f[K("image")] \notin {None, Str(<<>>)}
\* the supplied image is a string whose payload decodes to a raster
ImageDecodes ==
  /\ ImageSupplied
  /\ request.data.f[K("image")].t = "str"
  /\ LET s == request.data.f[K("image")].s
     IN \/ s = <<"iVBORw0KGgo=">>
        \/ \E i \in 1..Len(s) : s[i] = MARKER /\ SubSeq(s, i + 1, Len(s)) = <<"iVBORw0KGgo=">>
EngineCalled == calls # <<>>
EngineReturned == EngineCalled /\ result # Unset
EngineRaised == EngineCalled /\ result = Unset
\* the engine's final report is a wrapper around a raw text
RawOf(r) == r.final_report.f[RAW_RESPONSE].s
ReturnedRawText ==
  /\ EngineReturned
  /\ RAW_RESPONSE \in DOMAIN result.final_report.f
  /\ result.final_report.f[RAW_RESPONSE].t = "str"
ReturnedStructured ==
  /\ EngineReturned
  /\ RAW_RESPONSE \notin DOMAIN result.final_report.f

(***************************************************************************)
(* C1.  The engine is invoked only after input validation has passed:      *)
(* every JSON request whose notes are blank, and every one whose supplied  *)
(* image does not decode, is answered 400 with success=false and with no   *)
(* call to the engine.                                                     *)
(***************************************************************************)
C1_RejectedBeforeEngine ==
  /\ EngineCalled => (JsonPost /\ NotesUsable /\ (ImageSupplied => ImageDecodes))
  /\ (Done /\ JsonPost /\ (NotesBlank \/ (ImageSupplied /\ ~ImageDecodes)))
       => /\ response.status = 400
          /\ response.body.success = FALSE
          /\ ~EngineCalled

\* the part of C1 that the code keeps: no call to the engine on rejected input
EngineOnlyAfterValidation ==
  /\ EngineCalled => (JsonPost /\ NotesUsable /\ (ImageSupplied => ImageDecodes))
  /\ (Done /\ JsonPost /\ (NotesBlank \/ (ImageSupplied /\ ~ImageDecodes))) => ~EngineCalled
  /\ (Done /\ JsonPost /\ NotesUsable /\ ImageSupplied /\ ~ImageDecodes)
       => response.status = 400
  /\ (Done /\ JsonPost /\ NotesBlank) => response.status = 400

(***************************************************************************)
(* C2.  When the engine returns a raw-text wrapper, the request is         *)
(* answered 200 with success=true whatever the raw text is.                *)
(***************************************************************************)
C2_RawTextNeverAnError ==
  (Done /\ ReturnedRawText) => (response.status = 200 /\ response.body.success = TRUE)

(***************************************************************************)
(* C3.  A raw text that lacks only its closing brace after a complete      *)
(* string field is repaired: the response report is the structured object  *)
(* of the complete fields, and {"a":"x","b":"y" gives {"a":"x","b":"y"}.   *)
(***************************************************************************)
\* closing the text with a brace gives an object, and the text holds a '",' marker
TruncatedAfterField(raw) ==
  /\ ~EndsWith(Strip(raw), "}")
  /\ EndsWith(Strip(raw), QUOTE)
  /\ RFind2(raw, QUOTE, ",") > 0
  /\ JsonLoads(raw \o <<"}">>).ok
C3_TruncationRepaired ==
  (Done /\ ReturnedRawText /\ TruncatedAfterField(RawOf(result)))
    => /\ response.status = 200
       /\ RAW_RESPONSE \notin DOMAIN response.body.report.f
       /\ (RawOf(result) = SubSeq(SpecExample, 1, Len(SpecExample) - 1)
             => response.body.report =
                  Dict([k \in {K("a"), K("b")} |->
                          IF k = K("a") THEN Str(K("x")) ELSE Str(K("y"))]))

(***************************************************************************)
(* C4.  A 500 body carries success=false, a non-empty error-kind tag and a *)
(* sanitized message: the exception's own message is not in the body.      *)
(***************************************************************************)
C4_NoExceptionDetailInBody ==
  (Done /\ response.status = 500)
    => /\ response.body.success = FALSE
       /\ response.body.error_type # ""
       /\ response.body.error # exc.msg
       /\ response.body.message # exc.msg

(***************************************************************************)
(* C5.  Every 200 response has the top-level keys success, mode,           *)
(* image_analyzed, report, trace, summary; its summary has the keys        *)
(* diagnosis, confidence, escalate, reason, each the report's field when   *)
(* the report has it and else "N/A", "N/A", false, "".                     *)
(***************************************************************************)
FieldOr(rep, key, default) == IF key \in DOMAIN rep.f THEN rep.f[key] ELSE default
C5_EnvelopeShape ==
  (Done /\ response.status = 200)
    => /\ DOMAIN response.body =
            {"success", "mode", "image_analyzed", "report", "trace", "summary"}
       /\ response.body.success = TRUE
       /\ DOMAIN response.body.summary = {"diagnosis", "confidence", "escalate", "reason"}
       /\ LET rep == response.body.report
              sum == response.body.summary
          IN /\ sum.diagnosis = FieldOr(rep, PRIMARY_DIAGNOSIS, Str(<<"N/A">>))
             /\ sum.confidence = FieldOr(rep, PANEL_AGREEMENT_SCORE, Str(<<"N/A">>))
             /\ sum.escalate = FieldOr(rep, ESCALATE_TO_HUMAN, Bool(FALSE))
             /\ sum.reason = FieldOr(rep, ESCALATION_REASON, Str(<<>>))
\* a 200 response whose report is the raw fallback, summarised by the defaults
C5_Witness ==
  /\ Done
  /\ response.status = 200
  /\ RAW_RESPONSE \in DOMAIN response.body.report.f
  /\ response.body.summary.diagnosis = Str(<<"N/A">>)

(***************************************************************************)
(* C6.  The report of a 200 response always carries the primary-diagnosis, *)
(* agreement-score, escalate-to-human and escalation-reason fields,        *)
(* defaults standing in for the missing ones, raw fallback included.       *)
(***************************************************************************)
C6_ReportCarriesAllFields ==
  (Done /\ response.status = 200) => ReportFields \subseteq DOMAIN response.body.report.f

(***************************************************************************)
(* C7.  In a 200 response the mode is the caller's when the caller gave    *)
(* one; otherwise it is "full" exactly when an image was supplied and      *)
(* decoded and "text-only" exactly when no image was supplied, and         *)
(* image_analyzed is true in the first case and false in the second.       *)
(***************************************************************************)
C7_ModeDetermination ==
  (Done /\ response.status = 200)
    => /\ HasKey("mode") => response.body.mode = request.data.f[K("mode")]
       /\ ~HasKey("mode")
            => /\ (response.body.mode = Str(<<"full">>)) <=> ImageDecodes
               /\ (response.body.mode = Str(<<"text-only">>)) <=> ~ImageSupplied
       /\ ImageDecodes => response.body.image_analyzed = TRUE
       /\ ~ImageSupplied => response.body.image_analyzed = FALSE
\* a 200 response to a request with a decodable image and no mode
C7_Witness ==
  /\ Done
  /\ response.status = 200
  /\ ~HasKey("mode")
  /\ ImageDecodes
  /\ response.body.mode = Str(<<"full">>)

(***************************************************************************)
(* C8.  Repair is idempotent: a structured final report comes out          *)
(* unchanged, and repairing the result of a first repair changes nothing.  *)
(***************************************************************************)
\* the repair step of this request has run
RepairRan == EngineReturned /\ pc \in {"assemble", "except", "done"}
RepairsToItself(rep) == RepairReport(rep) = [raised |-> FALSE, exc |-> None, report |-> rep]
\* C8 as stated: for every raw-text wrapper
C8_Idempotent ==
  /\ (RepairRan /\ ReturnedStructured) => report = result.final_report
  /\ (RepairRan /\ ReturnedRawText) => (report # Unset /\ RepairsToItself(report))
\* the first repair's result is itself a raw wrapper, read out of the raw text
RepairedToWrapper ==
  /\ report.t = "dict"
  /\ RAW_RESPONSE \in DOMAIN report.f
  /\ report # result.final_report
\* C8 amended: for every raw-text wrapper whose text does not itself parse to an
\* object that carries a raw_response key
C8_IdempotentUnlessNested ==
  /\ (RepairRan /\ ReturnedStructured) => report = result.final_report
  /\ (RepairRan /\ ReturnedRawText)
       => (report # Unset /\ (~RepairedToWrapper => RepairsToItself(report)))
\* a raw text was parsed into a structured report, which a second repair keeps
C8_Witness ==
  /\ RepairRan
  /\ ReturnedRawText
  /\ report # Unset
  /\ report.t = "dict"
  /\ PRIMARY_DIAGNOSIS \in DOMAIN report.f

(***************************************************************************)
(* C9.  A JSON request without usable notes (key absent, null, not text,   *)
(* empty or whitespace-only) is answered 400 with success=false.           *)
(***************************************************************************)
C9_MissingNotesIs400 ==
  (Done /\ JsonPost /\ ~NotesUsable)
    => (response.status = 400 /\ response.body.success = FALSE)

(***************************************************************************)
(* C10.  The engine is called at most once per request: exactly once, with *)
(* the trimmed notes and the decoded image (or none), when validation and  *)
(* decoding pass; a raising call is answered 500 without a second call; a  *)
(* returning call's panel trace is the response's trace, unmodified.       *)
(***************************************************************************)
ExpectedCall ==
  [image |-> IF ImageSupplied THEN Img(<<"PNG-raster">>) ELSE None,
   notes |-> Strip(request.data.f[K("notes")].s)]
C10_CalledOnce ==
  /\ Len(calls) <= 1
  /\ (Done /\ JsonPost /\ NotesUsable /\ (ImageSupplied => ImageDecodes))
       => calls = <<ExpectedCall>>
  /\ (Done /\ EngineRaised) => response.status = 500
\* the part of the trace clause the code keeps: a 200 response carries the trace
TracePassedThrough ==
  (Done /\ response.status = 200) => response.body.trace = result.panel_trace
C10_SingleCallAndTrace ==
  /\ C10_CalledOnce
  /\ (Done /\ EngineReturned)
       => /\ "trace" \in DOMAIN response.body
          /\ response.body.trace = result.panel_trace
====
